---- MODULE Spec2Model ----
(***************************************************************************)
(* A cluster of Ruft nodes, each running Node::run from src/src/node.rs.   *)
(* Every node owns a RaftInfo, an RPC channel fed by the RPC listener      *)
(* thread and a timer channel fed by the timer thread; the control loop    *)
(* (Node::start_raft_server) selects over both channels and handles one    *)
(* event per iteration.                                                    *)
(***************************************************************************)
EXTENDS Integers, Sequences, FiniteSets, TLC

\* ---- bounds of the model ----
MaxTerm == 2        \* the timers stop firing once current_term gets here
                    \* (far below the u32 range of the field)
MaxInFlight == 1    \* events waiting in all channels of the cluster together
MaxNodeNumber == 8  \* largest node_number handed to Node::new
MaxHeartbeat == 4   \* largest heartbeat_interval handed to Node::new

\* ---- inputs of Node::new for the cluster ----
NodeNumber == 3
HeartbeatInterval == 1
Nodes == 1..NodeNumber
NodeList == << "peer" >>

\* ---- u32 arithmetic, on two 16-bit limbs [hi, lo] ----
Limb == 65536

U32(i) == [hi |-> i \div Limb, lo |-> i % Limb]

\* the value as an integer, for values below 2^31
U32ToInt(x) == x.hi * Limb + x.lo

\* x - 1, wrapping at 0 as the release build does
U32WrappingSub1(x) ==
    IF x.lo > 0 THEN [x EXCEPT !.lo = x.lo - 1]
    ELSE IF x.hi > 0 THEN [hi |-> x.hi - 1, lo |-> Limb - 1]
    ELSE [hi |-> Limb - 1, lo |-> Limb - 1]

\* x / 2
U32Div2(x) ==
    [hi |-> x.hi \div 2, lo |-> (x.lo \div 2) + (x.hi % 2) * (Limb \div 2)]

\* x + 1, for x below u32::MAX
U32Add1(x) ==
    IF x.lo < Limb - 1 THEN [x EXCEPT !.lo = x.lo + 1]
    ELSE [hi |-> x.hi + 1, lo |-> 0]

\* ClusterInfo::new: let majority_number = (node_number - 1) / 2 + 1;
majority_number(node_number) ==
    U32Add1(U32Div2(U32WrappingSub1(U32(node_number))))

\* ClusterInfo::new
ClusterInfo_new(node_number, heartbeat_interval, node_list) ==
    [node_number |-> node_number,
     majority_number |-> majority_number(node_number),
     heartbeat_interval |-> heartbeat_interval,
     node_list |-> node_list]

\* `node_number - 1` overflows: the debug build panics, the release build wraps
SubOverflows(node_number) == node_number = 0

\* enum Role
Role == {"Follower", "Candidate", "Leader"}

is_follower(r) == r = "Follower"
is_candidate(r) == r = "Candidate"
is_leader(r) == r = "Leader"

\* ---- rpc::Message, the four variants with the fields of the RPC schema ----
RequestVoteRequest(t, c, lli, llt) ==
    [kind |-> "RequestVoteRequest", term |-> t, candidate_id |-> c,
     last_log_index |-> lli, last_log_term |-> llt]
RequestVoteResponse(t, g) ==
    [kind |-> "RequestVoteResponse", term |-> t, vote_granted |-> g]
AppendEntriesRequest(t, l, pli, plt, es, lc) ==
    [kind |-> "AppendEntriesRequest", term |-> t, leader_id |-> l,
     prev_log_index |-> pli, prev_log_term |-> plt, entries |-> es,
     leader_commit |-> lc]
AppendEntriesResponse(t, s, mi) ==
    [kind |-> "AppendEntriesResponse", term |-> t, success |-> s,
     matched_index |-> mi]

\* the messages the network may hand to a listener, in any order, any number
\* of times
Messages ==
    { RequestVoteRequest(1, 1, 0, 0),
      RequestVoteRequest(1, 2, 0, 0),
      RequestVoteResponse(1, TRUE),
      RequestVoteResponse(2, FALSE),
      AppendEntriesRequest(1, 1, 0, 0, << <<1, "x">> >>, 1),
      AppendEntriesRequest(2, 2, 2, 1, << <<2, "y">> >>, 0),
      AppendEntriesResponse(1, TRUE, 1),
      AppendEntriesResponse(2, FALSE, 0) }

VARIABLES
    raft_info,     \* raft_info[n]: the RaftInfo of node n
    rpc_queue,     \* rpc_queue[n]: the channel rpc.notifier -> rpc.receiver
    timer_queue,   \* timer_queue[n]: events waiting in timer.receiver
    outbox,        \* outbox[n]: messages node n has handed to rpc_cs to send
    info,          \* the last line written through info! by a control loop
    timeouts,      \* timeouts[n]: "Timeout occur" lines node n has written
    node_new,      \* the call of Node::new: its arguments and its outcome
    cluster_info,  \* the ClusterInfo of the constructed nodes, or "none"
    run_result,    \* run_result[n]: where node n is in Node::run
    rpc_open,      \* rpc_open[n]: the listener thread still holds rpc.notifier
    timer_open     \* timer_open[n]: the timer thread still holds its sender

vars == << raft_info, rpc_queue, timer_queue, outbox, info, timeouts,
           node_new, cluster_info, run_result, rpc_open, timer_open >>

raft_vars == << raft_info, rpc_queue, timer_queue, outbox, info, timeouts >>
new_vars == << node_new, cluster_info >>
run_vars == << run_result, rpc_open, timer_open >>

\* RaftInfo as Node::new builds it
NewRaftInfo(node_id) ==
    [node_id |-> node_id, role |-> "Follower", current_term |-> 0,
     voted_for |-> 0, logs |-> << >>, commit_index |-> 0, last_applied |-> 0,
     next_index |-> << >>, match_index |-> << >>]

\* the nodes of the cluster as Node::new leaves them
Constructed ==
    /\ raft_info = [n \in Nodes |-> NewRaftInfo(n)]
    /\ rpc_queue = [n \in Nodes |-> << >>]
    /\ timer_queue = [n \in Nodes |-> 0]
    /\ outbox = [n \in Nodes |-> {}]
    /\ info = [node |-> 0, line |-> [kind |-> "Starting Raft Algorithm"]]
    /\ timeouts = [n \in Nodes |-> 0]
    /\ node_new = [node_number |-> NodeNumber,
                   heartbeat_interval |-> HeartbeatInterval,
                   resolves |-> TRUE, result |-> "Ok"]
    /\ cluster_info = ClusterInfo_new(NodeNumber, HeartbeatInterval, NodeList)
    /\ rpc_open = [n \in Nodes |-> TRUE]
    /\ timer_open = [n \in Nodes |-> TRUE]

\* the cluster with every node inside its control loop
Init ==
    /\ Constructed
    /\ run_result = [n \in Nodes |-> "running"]

RECURSIVE SumQueues(_)
SumQueues(S) ==
    IF S = {} THEN 0
    ELSE LET n == CHOOSE x \in S : TRUE
         IN Len(rpc_queue[n]) + timer_queue[n] + SumQueues(S \ {n})

InFlight == SumQueues(Nodes)

\* change_to with the target role ignored in favour of Leader
change_to_leader(ri, new_role) == [ri EXCEPT !.role = "Leader"]

\* Node::change_to
change_to(ri, new_role) == [ri EXCEPT !.role = new_role]

\* an AppendEntriesRequest arm that copies leader_commit into commit_index
AppendEntriesRequestArm_commit(ri, request) ==
    [ri EXCEPT !.commit_index = request.leader_commit]

\* a RequestVoteRequest arm that answers every request with a grant and
\* records nothing
RequestVoteRequestSend_grant(ri, request) ==
    { [to |-> request.candidate_id,
       msg |-> RequestVoteResponse(request.term, TRUE)] }

\* a RequestVoteRequest arm that adopts the request's term without comparing
RequestVoteRequestArm_term(ri, request) ==
    [ri EXCEPT !.current_term = request.term]

\* an AppendEntriesResponse arm that records the peer's matched_index
AppendEntriesResponseArm_match(ri, request) ==
    [ri EXCEPT !.match_index = << request.matched_index >>]

\* the four arms of `match msg.message`: the new RaftInfo ...
AppendEntriesRequestArm(ri, request) == ri
AppendEntriesResponseArm(ri, request) == ri
RequestVoteRequestArm(ri, request) == ri
RequestVoteResponseArm(ri, request) == ri

\* ... and the messages the arm sends, as [to, msg] pairs
AppendEntriesRequestSend(ri, request) == {}
AppendEntriesResponseSend(ri, request) == {}
RequestVoteRequestSend(ri, request) == {}
RequestVoteResponseSend(ri, request) == {}

MatchMessage(ri, msg) ==
    CASE msg.kind = "AppendEntriesRequest" -> AppendEntriesRequestArm(ri, msg)
      [] msg.kind = "AppendEntriesResponse" -> AppendEntriesResponseArm(ri, msg)
      [] msg.kind = "RequestVoteRequest" -> RequestVoteRequestArm(ri, msg)
      [] msg.kind = "RequestVoteResponse" -> RequestVoteResponseArm(ri, msg)

MatchMessageSend(ri, msg) ==
    CASE msg.kind = "AppendEntriesRequest" -> AppendEntriesRequestSend(ri, msg)
      [] msg.kind = "AppendEntriesResponse" -> AppendEntriesResponseSend(ri, msg)
      [] msg.kind = "RequestVoteRequest" -> RequestVoteRequestSend(ri, msg)
      [] msg.kind = "RequestVoteResponse" -> RequestVoteResponseSend(ri, msg)

\* a Candidate branch of the timer arm that forgets the increment
TimeoutCandidate_keep(ri) == ri

\* the timer arm: the Candidate check runs first, then the Follower check
TimeoutCandidate(ri) ==
    IF is_candidate(ri.role)
    THEN [ri EXCEPT !.current_term = ri.current_term + 1]
    ELSE ri

TimeoutFollower(ri) ==
    IF is_follower(ri.role) THEN change_to(ri, "Candidate") ELSE ri

\* the timer arm with the Follower check first
TimerArm_swapped(ri) == TimeoutCandidate(TimeoutFollower(ri))

TimerArm(ri) == TimeoutFollower(TimeoutCandidate(ri))

\* ---- actions ----

\* the listener thread pushes an inbound message on rpc.notifier
start_listener(n) ==
    /\ run_result[n] /= "not_run"
    /\ rpc_open[n]
    /\ InFlight < MaxInFlight
    /\ \E msg \in Messages :
         rpc_queue' = [rpc_queue EXCEPT ![n] = Append(@, msg)]
    /\ UNCHANGED << raft_info, timer_queue, outbox, info, timeouts >>
    /\ UNCHANGED << new_vars, run_vars >>

\* the timer thread pushes an election timeout; it stops once handling the
\* waiting timeouts would take current_term to MaxTerm
run_elect(n) ==
    /\ run_result[n] /= "not_run"
    /\ timer_open[n]
    /\ InFlight < MaxInFlight
    /\ raft_info[n].current_term + timer_queue[n]
         + (IF is_follower(raft_info[n].role) THEN 0 ELSE 1) <= MaxTerm
    /\ timer_queue' = [timer_queue EXCEPT ![n] = @ + 1]
    /\ UNCHANGED << raft_info, rpc_queue, outbox, info, timeouts >>
    /\ UNCHANGED << new_vars, run_vars >>

\* select!: recv(self.rpc.receiver) -> msg
RecvRpc(n) ==
    /\ run_result[n] = "running"
    /\ Len(rpc_queue[n]) > 0
    /\ LET msg == Head(rpc_queue[n])
       IN /\ raft_info' = [raft_info EXCEPT ![n] = MatchMessage(@, msg)]
          /\ outbox' = [outbox EXCEPT
                          ![n] = @ \cup MatchMessageSend(raft_info[n], msg)]
          /\ info' = [node |-> n, line |-> msg]
    /\ rpc_queue' = [rpc_queue EXCEPT ![n] = Tail(@)]
    /\ UNCHANGED << timer_queue, timeouts, new_vars, run_vars >>

\* select!: recv(self.timer.receiver) -> _msg
RecvTimer(n) ==
    /\ run_result[n] = "running"
    /\ timer_queue[n] > 0
    /\ raft_info' = [raft_info EXCEPT ![n] = TimerArm(@)]
    /\ info' = [node |-> n, line |-> [kind |-> "Timeout occur"]]
    /\ timeouts' = [timeouts EXCEPT ![n] = @ + 1]
    /\ timer_queue' = [timer_queue EXCEPT ![n] = @ - 1]
    /\ UNCHANGED << rpc_queue, outbox, new_vars, run_vars >>

Next ==
    \E n \in Nodes :
        \/ start_listener(n)
        \/ run_elect(n)
        \/ RecvRpc(n)
        \/ RecvTimer(n)

Spec == Init /\ [][Next]_vars

\* the threads keep running: every thread that can take a step eventually does
FairSpec ==
    /\ Spec
    /\ \A n \in Nodes :
         /\ WF_vars(start_listener(n))
         /\ WF_vars(run_elect(n))
         /\ WF_vars(RecvRpc(n))
         /\ WF_vars(RecvTimer(n))

TypeOK ==
    /\ \A n \in Nodes :
         /\ raft_info[n].role \in Role
         /\ raft_info[n].current_term \in 0..MaxTerm
         /\ timer_queue[n] \in 0..MaxInFlight
         /\ \A i \in 1..Len(rpc_queue[n]) : rpc_queue[n][i] \in Messages
    /\ InFlight <= MaxInFlight

\* ---- helpers of the properties ----

\* in this step node n took the head of its RPC channel and handled it
RpcHandled(n) ==
    /\ Len(rpc_queue[n]) > 0
    /\ rpc_queue'[n] = Tail(rpc_queue[n])

\* in this step node n took a timeout event and handled it
TimerHandled(n) == timer_queue'[n] = timer_queue[n] - 1

LastLogIndex(ri) == Len(ri.logs)
LastLogTerm(ri) == IF Len(ri.logs) = 0 THEN 0 ELSE ri.logs[Len(ri.logs)][1]

\* (last_log_term, last_log_index) of the request >= the voter's, lexicographically
UpToDate(request, ri) ==
    \/ request.last_log_term > LastLogTerm(ri)
    \/ /\ request.last_log_term = LastLogTerm(ri)
       /\ request.last_log_index >= LastLogIndex(ri)

\* the log holds an entry of term t at index i; index 0 is the empty prefix
HasEntryAt(ri, i, t) ==
    \/ i = 0
    \/ /\ i <= Len(ri.logs)
       /\ ri.logs[i][1] = t

Grants(n) == { r \in outbox[n] : r.msg.kind = "RequestVoteResponse"
                                 /\ r.msg.vote_granted }

\* ---- C1 ----
\* C1: election safety: two nodes that are Leader with the same current_term
\* are the same node.
ElectionSafety ==
    \A a, b \in Nodes :
        ( /\ is_leader(raft_info[a].role)
          /\ is_leader(raft_info[b].role)
          /\ raft_info[a].current_term = raft_info[b].current_term )
        => a = b

\* two nodes are Candidates of the same term and one of them has just handled
\* a granted RequestVoteResponse of that term
ElectionSafetyWitness ==
    \E a, b \in Nodes :
        /\ a /= b
        /\ is_candidate(raft_info[a].role)
        /\ is_candidate(raft_info[b].role)
        /\ raft_info[a].current_term = 1
        /\ raft_info[b].current_term = 1
        /\ info = [node |-> a, line |-> RequestVoteResponse(1, TRUE)]

\* ---- C3 ----
\* C3: vote restriction: a step that handles a RequestVoteRequest adds a grant
\* only for the requesting candidate, only if no other candidate holds a grant
\* of that term, only if the candidate's log is at least as up to date as the
\* voter's, and then voted_for is the candidate's id.
VoteRestriction ==
    [][\A n \in Nodes :
         (RpcHandled(n) /\ Head(rpc_queue[n]).kind = "RequestVoteRequest")
         => LET request == Head(rpc_queue[n])
                granted == { r \in outbox'[n] \ outbox[n] :
                               /\ r.msg.kind = "RequestVoteResponse"
                               /\ r.msg.vote_granted }
            IN \A g \in granted :
                 /\ g.to = request.candidate_id
                 /\ \A o \in Grants(n) :
                      o.msg.term = g.msg.term => o.to = g.to
                 /\ UpToDate(request, raft_info[n])
                 /\ raft_info'[n].voted_for = request.candidate_id
      ]_vars

\* a node with no vote cast and an empty log has just handled the
\* RequestVoteRequest of candidate 2 for a term above its own
VoteRestrictionWitness ==
    \E n \in Nodes :
        /\ info = [node |-> n, line |-> RequestVoteRequest(1, 2, 0, 0)]
        /\ raft_info[n].current_term < 1
        /\ raft_info[n].voted_for = 0
        /\ Grants(n) = {}

\* ---- C4 ----
\* C4: commit monotonicity: no step of any node lowers its commit_index.
CommitMonotonic ==
    [][\A n \in Nodes :
         raft_info'[n].commit_index >= raft_info[n].commit_index]_vars

\* a node that has taken timeouts has just handled an AppendEntriesRequest
\* whose leader_commit is above its commit_index
CommitMonotonicWitness ==
    \E n \in Nodes :
        /\ info.node = n
        /\ info.line.kind = "AppendEntriesRequest"
        /\ info.line.leader_commit > raft_info[n].commit_index
        /\ is_candidate(raft_info[n].role)

\* ---- C5 ----
\* C5: a timeout handled by a Follower leaves it Candidate, with current_term
\* one higher and voted_for its own id.
FollowerTimeoutStartsElection ==
    [][\A n \in Nodes :
         (TimerHandled(n) /\ is_follower(raft_info[n].role))
         => /\ is_candidate(raft_info'[n].role)
            /\ raft_info'[n].current_term = raft_info[n].current_term + 1
            /\ raft_info'[n].voted_for = raft_info[n].node_id
      ]_vars

\* ---- C6 ----
\* C6: a node that handles an RPC message whose term is above its current_term
\* is afterwards Follower in the message's term with no vote.
HigherTermStepsDown ==
    [][\A n \in Nodes :
         (RpcHandled(n) /\ Head(rpc_queue[n]).term > raft_info[n].current_term)
         => /\ is_follower(raft_info'[n].role)
            /\ raft_info'[n].current_term = Head(rpc_queue[n]).term
            /\ raft_info'[n].voted_for = 0
      ]_vars

\* ---- C7 ----
\* C7: a Candidate that handles a grant of its own term which, with its own
\* vote, reaches majority_number is afterwards Leader with
\* next_index[peer] = len(logs) + 1 and match_index[peer] = 0 for every peer.
CandidateWinsOnMajority ==
    [][\A n \in Nodes :
         ( /\ RpcHandled(n)
           /\ is_candidate(raft_info[n].role)
           /\ Head(rpc_queue[n]) =
                RequestVoteResponse(raft_info[n].current_term, TRUE)
           /\ 1 + 1 >= U32ToInt(cluster_info.majority_number) )
         => /\ is_leader(raft_info'[n].role)
            /\ raft_info'[n].next_index =
                 [p \in 1..(NodeNumber - 1) |-> Len(raft_info[n].logs) + 1]
            /\ raft_info'[n].match_index = [p \in 1..(NodeNumber - 1) |-> 0]
      ]_vars

\* ---- C8 ----
\* C8: with every thread of every node kept running, some node is eventually
\* Leader.
EventuallyLeader == <>(\E n \in Nodes : is_leader(raft_info[n].role))

\* ---- C9 ----
\* C9: a Follower or Candidate that handles an AppendEntriesRequest of a term
\* >= its current_term answers success = false if its log has no entry of
\* prev_log_term at prev_log_index; otherwise its log becomes the prefix up to
\* prev_log_index followed by the entries and it answers success = true with
\* matched_index = prev_log_index + number of entries.
AppendEntriesHandled ==
    [][\A n \in Nodes :
         ( /\ RpcHandled(n)
           /\ Head(rpc_queue[n]).kind = "AppendEntriesRequest"
           /\ ~is_leader(raft_info[n].role)
           /\ Head(rpc_queue[n]).term >= raft_info[n].current_term )
         => LET request == Head(rpc_queue[n])
                ri == raft_info[n]
                answers == { r.msg : r \in outbox'[n] \ outbox[n] }
            IN IF ~HasEntryAt(ri, request.prev_log_index, request.prev_log_term)
               THEN \E a \in answers :
                      a.kind = "AppendEntriesResponse" /\ ~a.success
               ELSE /\ raft_info'[n].logs =
                         SubSeq(ri.logs, 1, request.prev_log_index)
                           \o request.entries
                    /\ \E a \in answers :
                         /\ a.kind = "AppendEntriesResponse"
                         /\ a.success
                         /\ a.matched_index =
                              request.prev_log_index + Len(request.entries)
      ]_vars
\* ---- construction: one call of Node::new with any arguments ----

NodeId == 1

InitNew ==
    /\ node_new \in [node_number : 0..MaxNodeNumber,
                     heartbeat_interval : 1..MaxHeartbeat,
                     resolves : BOOLEAN,
                     result : {"pending"}]
    /\ cluster_info = "none"
    /\ raft_info = << >>
    /\ rpc_queue = << >>
    /\ timer_queue = << >>
    /\ outbox = << >>
    /\ info = [node |-> 0, line |-> [kind |-> "none"]]
    /\ timeouts = << >>
    /\ run_result = << >>
    /\ rpc_open = << >>
    /\ timer_open = << >>

\* an address does not resolve, or RPCCS::new or NodeTimer::new fails
Node_new_Err ==
    /\ node_new.result = "pending"
    /\ ~node_new.resolves
    /\ node_new' = [node_new EXCEPT !.result = "Err"]
    /\ UNCHANGED << raft_vars, cluster_info, run_vars >>

\* return Ok(Node { cluster_info: ClusterInfo::new(..), raft_info: .. })
Node_new_Ok ==
    /\ node_new.result = "pending"
    /\ node_new.resolves
    /\ node_new' = [node_new EXCEPT !.result = "Ok"]
    /\ cluster_info' = ClusterInfo_new(node_new.node_number,
                                       node_new.heartbeat_interval, NodeList)
    /\ raft_info' = [n \in {NodeId} |-> NewRaftInfo(n)]
    /\ rpc_queue' = [n \in {NodeId} |-> << >>]
    /\ timer_queue' = [n \in {NodeId} |-> 0]
    /\ outbox' = [n \in {NodeId} |-> {}]
    /\ timeouts' = [n \in {NodeId} |-> 0]
    /\ run_result' = [n \in {NodeId} |-> "not_run"]
    /\ rpc_open' = [n \in {NodeId} |-> TRUE]
    /\ timer_open' = [n \in {NodeId} |-> TRUE]
    /\ UNCHANGED info

\* the debug build: `node_number - 1` panics with "attempt to subtract with
\* overflow" inside ClusterInfo::new
Node_new_panic ==
    /\ node_new.result = "pending"
    /\ node_new.resolves
    /\ SubOverflows(node_new.node_number)
    /\ node_new' = [node_new EXCEPT !.result = "panic"]
    /\ UNCHANGED << raft_vars, cluster_info, run_vars >>

NextNew ==
    \/ Node_new_Err
    \/ Node_new_Ok
    \/ Node_new_panic

NewSpec == InitNew /\ [][NextNew]_vars

\* the sets of majority_number nodes of a cluster of node_number nodes
Quorums(node_number, majority) ==
    { Q \in SUBSET (1..node_number) : Cardinality(Q) = majority }

\* ---- C12 ----
\* C12: for every node_number >= 1 the majority_number of the constructed
\* ClusterInfo is the smallest integer strictly greater than node_number / 2,
\* and any two sets of majority_number nodes share a node.
MajorityIsQuorum ==
    (node_new.result = "Ok" /\ node_new.node_number >= 1)
    => LET n == cluster_info.node_number
           m == U32ToInt(cluster_info.majority_number)
       IN /\ 2 * m > n
          /\ 2 * (m - 1) <= n
          /\ \A A, B \in Quorums(n, m) : A \cap B /= {}

\* ---- C18 ----
\* C18: a call of Node::new with node_number = 0 never yields a ClusterInfo,
\* so never a majority_number that comes from the wrap-around of
\* node_number - 1.
ZeroNodeNumberRejected ==
    (node_new.node_number = 0 /\ node_new.result /= "pending")
    => /\ node_new.result /= "Ok"
       /\ cluster_info = "none"
\* ---- lifecycle: one node from the call of Node::run on, with the listener
\* ---- and timer threads free to end ----

Runner == 1

InitRun ==
    /\ Constructed
    /\ run_result = [n \in Nodes |-> "not_run"]

\* Node::run: start_rpc_listener and start_timer return Ok(()), then
\* start_raft_server enters its loop
run(n) ==
    /\ run_result[n] = "not_run"
    /\ run_result' = [run_result EXCEPT ![n] = "running"]
    /\ info' = [node |-> n, line |-> [kind |-> "Starting Raft Algorithm"]]
    /\ UNCHANGED << raft_info, rpc_queue, timer_queue, outbox, timeouts >>
    /\ UNCHANGED << new_vars, rpc_open, timer_open >>

\* rpc_cs.start_listener returns Err in the spawned thread: the closure maps
\* it to RPCInitializationError, which nobody reads, and rpc_notifier is
\* dropped
listener_error(n) ==
    /\ run_result[n] /= "not_run"
    /\ rpc_open[n]
    /\ rpc_open' = [rpc_open EXCEPT ![n] = FALSE]
    /\ UNCHANGED << raft_vars, new_vars, run_result, timer_open >>

\* the timer thread ends and drops its sender
timer_exit(n) ==
    /\ run_result[n] /= "not_run"
    /\ timer_open[n]
    /\ timer_open' = [timer_open EXCEPT ![n] = FALSE]
    /\ UNCHANGED << raft_vars, new_vars, run_result, rpc_open >>

\* select!: recv(self.rpc.receiver) -> msg on the empty, disconnected channel:
\* `msg?` returns the RecvError from start_raft_server and so from run
RecvRpcErr(n) ==
    /\ run_result[n] = "running"
    /\ ~rpc_open[n]
    /\ Len(rpc_queue[n]) = 0
    /\ run_result' = [run_result EXCEPT ![n] = "RecvError"]
    /\ UNCHANGED << raft_vars, new_vars, rpc_open, timer_open >>

\* select!: recv(self.timer.receiver) -> _msg on the empty, disconnected
\* channel: the Err is bound to _msg and the arm runs as for a timeout
RecvTimerErr(n) ==
    /\ run_result[n] = "running"
    /\ ~timer_open[n]
    /\ timer_queue[n] = 0
    /\ raft_info[n].current_term
         + (IF is_follower(raft_info[n].role) THEN 0 ELSE 1) <= MaxTerm
    /\ raft_info' = [raft_info EXCEPT ![n] = TimerArm(@)]
    /\ info' = [node |-> n, line |-> [kind |-> "Timeout occur"]]
    /\ timeouts' = [timeouts EXCEPT ![n] = @ + 1]
    /\ UNCHANGED << rpc_queue, timer_queue, outbox, new_vars, run_vars >>

NextRun ==
    \/ run(Runner)
    \/ start_listener(Runner)
    \/ run_elect(Runner)
    \/ listener_error(Runner)
    \/ timer_exit(Runner)
    \/ RecvRpc(Runner)
    \/ RecvRpcErr(Runner)
    \/ RecvTimer(Runner)
    \/ RecvTimerErr(Runner)

RunSpec == InitRun /\ [][NextRun]_vars

\* ---- C15 ----
\* C15: whenever run has returned to its caller, what it returned is the
\* initialization error of a listener that failed to start; no receive error
\* of the running control loop is returned.
RunReportsOnlyInitializationErrors ==
    \A n \in Nodes :
        run_result[n] \notin {"not_run", "running"}
        => /\ run_result[n] = "RPCInitializationError"
           /\ ~rpc_open[n]

\* a wait of node n observes a closed channel: the sender is dropped and
\* nothing is left in the channel
RpcClosed(n) == ~rpc_open[n] /\ Len(rpc_queue[n]) = 0
TimerClosed(n) == ~timer_open[n] /\ timer_queue[n] = 0

\* ---- C16 ----
\* C16: once the RPC channel or the timer channel of a node is closed, its
\* control loop handles no further event: no message, no timeout, and no
\* "Timeout occur" for the closed channel.
ClosedQueueStopsLoop ==
    [][\A n \in Nodes :
         (run_result[n] = "running" /\ (RpcClosed(n) \/ TimerClosed(n)))
         => /\ ~RpcHandled(n)
            /\ ~TimerHandled(n)
            /\ timeouts'[n] = timeouts[n]
            /\ raft_info'[n] = raft_info[n]
      ]_vars
\* in this step node n wrote "Timeout occur": it ran the timer arm
TimeoutHandled(n) == timeouts'[n] = timeouts[n] + 1

\* ---- C13 ----
\* C13: every node is created Follower in term 0, and no step of any node
\* lowers its current_term.
TermMonotonic ==
    /\ \A n \in Nodes : /\ raft_info[n].current_term = 0
                        /\ is_follower(raft_info[n].role)
    /\ [][\A n \in Nodes :
            raft_info'[n].current_term >= raft_info[n].current_term]_vars

\* a node in term 2 has just handled a RequestVoteRequest of term 1
TermMonotonicWitness ==
    \E n \in Nodes :
        /\ info.node = n
        /\ info.line.kind = "RequestVoteRequest"
        /\ raft_info[n].current_term = 2
        /\ info.line.term < raft_info[n].current_term

\* ---- C14 ----
\* C14: a Candidate that handles an AppendEntriesRequest of a term >= its
\* current_term is Follower afterwards.
CandidateYieldsToLeader ==
    [][\A n \in Nodes :
         ( /\ RpcHandled(n)
           /\ is_candidate(raft_info[n].role)
           /\ Head(rpc_queue[n]).kind = "AppendEntriesRequest"
           /\ Head(rpc_queue[n]).term >= raft_info[n].current_term )
         => is_follower(raft_info'[n].role)
      ]_vars

\* ---- C17 ----
\* C17: a timeout handled by a Candidate leaves it Candidate with current_term
\* exactly one higher.
CandidateTimeoutNewTerm ==
    [][\A n \in Nodes :
         (TimeoutHandled(n) /\ is_candidate(raft_info[n].role))
         => /\ is_candidate(raft_info'[n].role)
            /\ raft_info'[n].current_term = raft_info[n].current_term + 1
      ]_vars

\* a Candidate has just handled its third timeout and is in term 2
CandidateTimeoutNewTermWitness ==
    \E n \in Nodes :
        /\ info = [node |-> n, line |-> [kind |-> "Timeout occur"]]
        /\ is_candidate(raft_info[n].role)
        /\ raft_info[n].current_term = 2
        /\ timeouts[n] = 3

\* ---- C19 ----
\* C19: no timeout both changes the role and increments the term; after
\* n >= 1 timeouts, whatever messages came between them, the node is
\* Candidate in term n - 1; it is never Leader and never Follower again.
TimeoutsCountTerm ==
    /\ [](\A n \in Nodes :
            /\ ~is_leader(raft_info[n].role)
            /\ timeouts[n] = 0 => is_follower(raft_info[n].role)
            /\ timeouts[n] >= 1
                 => /\ is_candidate(raft_info[n].role)
                    /\ raft_info[n].current_term = timeouts[n] - 1)
    /\ [][\A n \in Nodes :
            /\ ~( /\ raft_info'[n].role /= raft_info[n].role
                  /\ raft_info'[n].current_term /= raft_info[n].current_term )
            /\ is_candidate(raft_info[n].role)
                 => is_candidate(raft_info'[n].role)
       ]_vars

\* after three timeouts the node has just handled a message and is Candidate
\* in term 2
TimeoutsCountTermWitness ==
    /\ timeouts[Runner] = 3
    /\ info.node = Runner
    /\ info.line.kind = "AppendEntriesRequest"
    /\ is_candidate(raft_info[Runner].role)
    /\ raft_info[Runner].current_term = 2

\* ---- C20 ----
\* C20: handling an RPC message leaves the RaftInfo as it was; voted_for,
\* logs, commit_index, last_applied, next_index and match_index keep their
\* values of creation in every reachable state; only role and current_term
\* change, and only in a step that handles a timeout.
OnlyTimeoutsChangeRaftInfo ==
    /\ [](\A n \in Nodes :
            /\ raft_info[n].voted_for = 0
            /\ raft_info[n].logs = << >>
            /\ raft_info[n].commit_index = 0
            /\ raft_info[n].last_applied = 0
            /\ raft_info[n].next_index = << >>
            /\ raft_info[n].match_index = << >>)
    /\ [][\A n \in Nodes :
            /\ RpcHandled(n) => raft_info'[n] = raft_info[n]
            /\ raft_info'[n] /= raft_info[n] => TimeoutHandled(n)
            /\ raft_info'[n] =
                 [raft_info[n] EXCEPT
                    !.role = raft_info'[n].role,
                    !.current_term = raft_info'[n].current_term]
       ]_vars

\* a node that has taken two timeouts has just handled a successful
\* AppendEntriesResponse and differs from its creation in role and term only
OnlyTimeoutsChangeRaftInfoWitness ==
    \E n \in Nodes :
        /\ info = [node |-> n, line |-> AppendEntriesResponse(1, TRUE, 1)]
        /\ raft_info[n] = [NewRaftInfo(n) EXCEPT !.role = "Candidate",
                                                 !.current_term = 1]
====
